---- MODULE Spec2Model ----
(***************************************************************************)
(* Model of harbor's src/fedimint_client.rs:                               *)
(*   - FedimintStorage / SQLPseudoTransaction: an in-memory MemDatabase    *)
(*     (the Mirror) hydrated from one durable blob per federation and      *)
(*     re-serialized with bincode on every commit_tx;                      *)
(*   - the five spawn_*_subscription reconciler tasks.                     *)
(* MemDatabase / MemTransaction are fedimint_core's in-memory database:    *)
(* a BTreeMap, transactions working on a private copy (tx_data) plus a     *)
(* list of operations replayed onto the shared map at commit, and one      *)
(* savepoint per transaction.                                              *)
(***************************************************************************)
EXTENDS Integers, Sequences, FiniteSets, TLC

\* ------------------------------------------------------------------ bounds
MaxOps == 2         \* operations buffered in the open transactions, all together

\* ------------------------------------------------------------ value spaces
TxIds == {1, 2}                         \* transaction handles
SerialTx == {1}                         \* handles used when storage transactions are serialized
Keys == {<<1>>, <<1, 2>>}               \* byte strings; <<1>> prefixes <<1,2>>
Vals == {<<7>>, <<>>}                   \* byte strings
\* the (key, value) pairs given to raw_insert_bytes: two values for one key (an
\* overwrite changes the value), an empty value, one value for the other key
Inserts == {<<(<<1>>), (<<7>>)>>, <<(<<1>>), (<<>>)>>, <<(<<1, 2>>), (<<7>>)>>}
Prefixes == {<<>>, <<1, 2>>, <<2>>}            \* every key, one key, no key
NoTx == [open |-> FALSE]
EmptyMap == [k \in {} |-> <<>>]

VARIABLES
    rows,        \* durable table: the value column of this federation's rows, in insertion order
    opened,      \* a FedimintStorage instance exists (the last new() returned Ok)
    mirror,      \* fedimint_memory: MemDatabase contents, a map from keys to values
    tx,          \* the SQLPseudoTransaction handles: TxIds -> NoTx or a MemTransaction
                 \* (overlapped, discarded: history, see NewMemTx)
    lastOp       \* history: the last call that opened the store or ended a transaction (see Call)
                 \* or began one

storeVars == <<rows, opened, mirror, tx, lastOp>>

VARIABLES
    task,        \* the reconciler tasks: Tasks -> [kind, status, todo, brk, consumed, log]
    records,     \* the OperationRecord of each operation id (a task's index)
    chanOpen     \* the UI channel's receiver is alive

reconVars == <<task, records, chanOpen>>
VARIABLES
    gateways,    \* the registry: what ln.list_gateways() returns, in order
    resolvable,  \* the gateway ids ln.select_gateway resolves during one select_gateway call
    returned     \* what select_gateway returned: [called, value], value an Option

gatewayVars == <<gateways, resolvable, returned>>

VARIABLES
    stop,        \* the shared stop flag (Arc<AtomicBool>)
    stopAt,      \* history: the round in progress, or the next to start, when the flag was
                 \* set; 0 when it was set before FedimintClient::new, -1 while it is clear
    refresher    \* FedimintClient::new and the task it spawns: [pc, err, first, rounds]

refreshVars == <<stop, stopAt, refresher>>
vars == <<storeVars, reconVars, gatewayVars, refreshVars>>

\* ------------------------------------------------------- byte-string order
\* Vec<u8> ordering used by BTreeMap: lexicographic
RECURSIVE BytesLess(_, _)
BytesLess(a, b) ==
    IF b = <<>> THEN FALSE
    ELSE IF a = <<>> THEN TRUE
    ELSE IF Head(a) # Head(b) THEN Head(a) < Head(b)
    ELSE BytesLess(Tail(a), Tail(b))

StartsWith(k, p) ==
    /\ Len(p) <= Len(k)
    /\ \A i \in 1..Len(p) : k[i] = p[i]

MinKey(S) == CHOOSE k \in S : \A o \in S : o = k \/ BytesLess(k, o)

RECURSIVE SortedKeys(_)
SortedKeys(S) ==
    IF S = {} THEN <<>>
    ELSE LET m == MinKey(S) IN <<m>> \o SortedKeys(S \ {m})

RECURSIVE Reverse(_)
Reverse(s) == IF s = <<>> THEN <<>> ELSE Reverse(Tail(s)) \o <<Head(s)>>

\* ---------------------------------------------------------- BTreeMap ops
MapInsert(m, k, v) == [x \in (DOMAIN m) \cup {k} |-> IF x = k THEN v ELSE m[x]]
MapRemove(m, k) == [x \in (DOMAIN m) \ {k} |-> m[x]]
MapGet(m, k) == IF k \in DOMAIN m THEN <<m[k]>> ELSE <<>>     \* Option: <<v>> = Some(v), <<>> = None

\* MemTransaction::raw_find_by_prefix: the entries under a prefix, ascending
FindByPrefix(m, p) ==
    LET ks == SortedKeys({k \in DOMAIN m : StartsWith(k, p)})
    IN [i \in 1..Len(ks) |-> <<ks[i], m[ks[i]]>>]

FindByPrefixDesc(m, p) == Reverse(FindByPrefix(m, p))

\* the key-value set of a pair list / a map, for order-independent comparison
PairSet(pairs) == {pairs[i] : i \in 1..Len(pairs)}
MapPairs(m) == {<<k, m[k]>> : k \in DOMAIN m}

\* ------------------------------------------------------------- bincode
\* u64 length prefix: 8 bytes little endian (fixint encoding)
RECURSIVE LittleEndian(_, _)
LittleEndian(n, width) ==
    IF width = 0 THEN <<>> ELSE <<n % 256>> \o LittleEndian(n \div 256, width - 1)

U64LE(n) == LittleEndian(n, 8)

RECURSIVE FromLE(_)
FromLE(bs) == IF bs = <<>> THEN 0 ELSE Head(bs) + 256 * FromLE(Tail(bs))

SerBytes(b) == U64LE(Len(b)) \o b

RECURSIVE SerPairs(_)
SerPairs(pairs) ==
    IF pairs = <<>> THEN <<>>
    ELSE SerBytes(Head(pairs)[1]) \o SerBytes(Head(pairs)[2]) \o SerPairs(Tail(pairs))

\* bincode::serialize(&Vec<(Vec<u8>, Vec<u8>)>)
Serialize(pairs) == U64LE(Len(pairs)) \o SerPairs(pairs)

\* reading one Vec<u8>: [ok, val, rest]
DeBytes(bs) ==
    IF Len(bs) < 8 THEN [ok |-> FALSE, val |-> <<>>, rest |-> <<>>]
    ELSE LET n == FromLE(SubSeq(bs, 1, 8)) IN
         IF Len(bs) < 8 + n THEN [ok |-> FALSE, val |-> <<>>, rest |-> <<>>]
         ELSE [ok |-> TRUE, val |-> SubSeq(bs, 9, 8 + n), rest |-> SubSeq(bs, 9 + n, Len(bs))]

RECURSIVE DePairs(_, _)
DePairs(n, bs) ==
    IF n = 0 THEN [ok |-> TRUE, val |-> <<>>]
    ELSE LET k == DeBytes(bs) IN
         IF ~k.ok THEN [ok |-> FALSE, val |-> <<>>]
         ELSE LET v == DeBytes(k.rest) IN
              IF ~v.ok THEN [ok |-> FALSE, val |-> <<>>]
              ELSE LET r == DePairs(n - 1, v.rest) IN
                   IF ~r.ok THEN r
                   ELSE [ok |-> TRUE, val |-> <<(<<k.val, v.val>>)>> \o r.val]

\* bincode::deserialize::<Vec<(Vec<u8>, Vec<u8>)>>: fails on truncated input
\* (the empty byte string included), ignores trailing bytes
Deserialize(bs) ==
    IF Len(bs) < 8 THEN [ok |-> FALSE, val |-> <<>>]
    ELSE DePairs(FromLE(SubSeq(bs, 1, 8)), SubSeq(bs, 9, Len(bs)))

RECURSIVE FromPairs(_, _)
\* FedimintStorage::new, the hydration loop: raw_insert_bytes of every pair in order
FromPairs(m, pairs) ==
    IF pairs = <<>> THEN m
    ELSE FromPairs(MapInsert(m, Head(pairs)[1], Head(pairs)[2]), Tail(pairs))

\* --------------------------------------------- DBConnection (blob store)
\* get_federation_value: the value of the federation's row, if any
GetFederationValue(rs) == IF rs = <<>> THEN <<>> ELSE <<rs[1]>>
\* insert_new_federation: one more row
InsertNewFederation(rs, v) == Append(rs, v)
\* update_fedimint_data: full overwrite of the federation's value
UpdateFedimintData(rs, blob) == [i \in DOMAIN rs |-> blob]

\* -------------------------------------------------------- MemTransaction
InsertOp(k, v) == [op |-> "Insert", key |-> k, value |-> v]
DeleteOp(k) == [op |-> "Delete", key |-> k, value |-> <<>>]

RECURSIVE ApplyOps(_, _)
\* MemTransaction::commit_tx: replay the buffered operations onto the shared map
ApplyOps(m, ops) ==
    IF ops = <<>> THEN m
    ELSE LET o == Head(ops) IN
         ApplyOps(IF o.op = "Insert" THEN MapInsert(m, o.key, o.value) ELSE MapRemove(m, o.key),
                  Tail(ops))

\* the operations of ops, without their values
OpSet(ops) == {[op |-> ops[i].op, key |-> ops[i].key] : i \in 1..Len(ops)}
OpKeys(ops) == {ops[i].key : i \in 1..Len(ops)}
InsertedPairs(ops) == {<<ops[i].key, ops[i].value>> : i \in {j \in 1..Len(ops) : ops[j].op = "Insert"}}
DeletedKeys(ops) == {ops[i].key : i \in {j \in 1..Len(ops) : ops[j].op = "Delete"}}

RECURSIVE DeleteOps(_)
DeleteOps(ks) == IF ks = <<>> THEN <<>> ELSE <<DeleteOp(Head(ks))>> \o DeleteOps(Tail(ks))

\* MemDatabase::begin_transaction: a private copy of the map, itself the first savepoint.
\* History fields: overlapped (another handle was open during this one's life),
\* discarded (operations undone by a rollback whose key was not written since).
NewMemTx(m, shared) ==
    [open |-> TRUE, tx_data |-> m, operations |-> <<>>, savepoint |-> m, sp_ops |-> 0,
     overlapped |-> shared, discarded |-> {}]

OpenTxs == {t \in TxIds : tx[t].open}

\* operations buffered in all open transactions
RECURSIVE Buffered(_)
Buffered(S) ==
    IF S = {} THEN 0
    ELSE LET t == CHOOSE u \in S : TRUE IN Len(tx[t].operations) + Buffered(S \ {t})

\* the record of a call: its name, handle, result (ok), whether a durable call was
\* made to fail (fault), the durable calls made, and for commit_tx / drop the
\* handle's final state (end)
NoEnd == [view |-> EmptyMap, ops |-> <<>>, overlapped |-> FALSE, discarded |-> {}]
EndOf(h) == [view |-> h.tx_data, ops |-> h.operations, overlapped |-> h.overlapped,
             discarded |-> h.discarded]
Call(n, t, ok, fault, calls, end, after) ==
    [name |-> n, t |-> t, ok |-> ok, fault |-> fault, calls |-> calls, end |-> end, after |-> after]

\* ------------------------------------------------------------------ Init
StoreInit ==
    /\ rows = <<>>
    /\ opened = FALSE
    /\ mirror = EmptyMap
    /\ tx = [t \in TxIds |-> NoTx]
    /\ lastOp = Call("init", 0, TRUE, FALSE, {}, NoEnd, "")

\* --------------------------------------------------------------- actions
\* FedimintStorage::new for this federation id (a process start: handles of an
\* earlier instance are gone).  fault: which durable call fails, if any.
NewOutcome(rs, fault) ==
    IF fault = "get" THEN [ok |-> FALSE, rows |-> rs, data |-> <<>>, calls |-> {"get_federation_value"}]
    ELSE LET got == GetFederationValue(rs) IN
         IF got # <<>> THEN
            LET d == Deserialize(got[1]) IN
            [ok |-> d.ok, rows |-> rs, data |-> d.val, calls |-> {"get_federation_value"}]
         ELSE IF fault = "insert" THEN
            [ok |-> FALSE, rows |-> rs, data |-> <<>>,
             calls |-> {"get_federation_value", "insert_new_federation"}]
         ELSE
            [ok |-> TRUE, rows |-> InsertNewFederation(rs, <<>>), data |-> <<>>,
             calls |-> {"get_federation_value", "insert_new_federation"}]

New ==
    \E fault \in {"none", "get", "insert"} :
        LET r == NewOutcome(rows, fault) IN
        /\ fault = "insert" => rows = <<>>
        /\ rows' = r.rows
        /\ opened' = r.ok
        /\ mirror' = IF r.ok /\ r.data # <<>> THEN FromPairs(EmptyMap, r.data) ELSE EmptyMap
        /\ tx' = [t \in TxIds |-> NoTx]
        /\ UNCHANGED <<reconVars, gatewayVars, refreshVars>>
        /\ lastOp' = IF lastOp.name = "commit_tx"
                     THEN Call("new", 0, r.ok, fault # "none", r.calls, lastOp.end,
                               IF lastOp.ok THEN "commit_ok" ELSE "commit_err")
                     ELSE Call("new", 0, r.ok, fault # "none", r.calls, NoEnd, "")

\* FedimintStorage::begin_transaction
BeginTransaction(t) ==
    /\ opened
    /\ ~tx[t].open
    /\ tx' = [u \in TxIds |->
                IF u = t THEN NewMemTx(mirror, OpenTxs # {})
                ELSE IF tx[u].open THEN [tx[u] EXCEPT !.overlapped = TRUE]
                ELSE tx[u]]
    /\ lastOp' = Call("begin_transaction", t, TRUE, FALSE, {}, NoEnd, "")
    /\ UNCHANGED <<rows, opened, mirror>>
    /\ UNCHANGED <<reconVars, gatewayVars, refreshVars>>

\* raw_insert_bytes: returns the previous value
RawInsertBytes(t, k, v) ==
    /\ tx[t].open
    /\ Buffered(OpenTxs) < MaxOps
    /\ tx' = [tx EXCEPT ![t].tx_data = MapInsert(@, k, v),
                        ![t].operations = Append(@, InsertOp(k, v)),
                        ![t].discarded = {o \in @ : o.key # k}]
    /\ UNCHANGED <<rows, opened, mirror, lastOp>>
    /\ UNCHANGED <<reconVars, gatewayVars, refreshVars>>

\* raw_get_bytes
RawGetBytes(t, k) ==
    /\ tx[t].open
    /\ UNCHANGED <<rows, opened, mirror, tx, lastOp>>
    /\ UNCHANGED <<reconVars, gatewayVars, refreshVars>>

\* raw_remove_entry: returns the previous value
RawRemoveEntry(t, k) ==
    /\ tx[t].open
    /\ Buffered(OpenTxs) < MaxOps
    /\ tx' = [tx EXCEPT ![t].tx_data = MapRemove(@, k),
                        ![t].operations = Append(@, DeleteOp(k)),
                        ![t].discarded = {o \in @ : o.key # k}]
    /\ UNCHANGED <<rows, opened, mirror, lastOp>>
    /\ UNCHANGED <<reconVars, gatewayVars, refreshVars>>

\* raw_find_by_prefix
RawFindByPrefix(t, p) ==
    /\ tx[t].open
    /\ UNCHANGED <<rows, opened, mirror, tx, lastOp>>
    /\ UNCHANGED <<reconVars, gatewayVars, refreshVars>>

\* raw_find_by_prefix_sorted_descending
RawFindByPrefixSortedDescending(t, p) ==
    /\ tx[t].open
    /\ UNCHANGED <<rows, opened, mirror, tx, lastOp>>
    /\ UNCHANGED <<reconVars, gatewayVars, refreshVars>>

\* raw_remove_by_prefix: one Delete per key under the prefix
RawRemoveByPrefix(t, p) ==
    LET ks == SortedKeys({k \in DOMAIN tx[t].tx_data : StartsWith(k, p)}) IN
    /\ tx[t].open
    /\ Buffered(OpenTxs) + Len(ks) <= MaxOps
    /\ tx' = [tx EXCEPT ![t].tx_data = [k \in (DOMAIN @) \ {ks[i] : i \in 1..Len(ks)} |-> @[k]],
                        ![t].operations = @ \o DeleteOps(ks),
                        ![t].discarded = {o \in @ : o.key \notin {ks[i] : i \in 1..Len(ks)}}]
    /\ UNCHANGED <<rows, opened, mirror, lastOp>>
    /\ UNCHANGED <<reconVars, gatewayVars, refreshVars>>

\* set_tx_savepoint
SetTxSavepoint(t) ==
    /\ tx[t].open
    /\ tx' = [tx EXCEPT ![t].savepoint = tx[t].tx_data,
                        ![t].sp_ops = Len(tx[t].operations)]
    /\ UNCHANGED <<rows, opened, mirror, lastOp>>
    /\ UNCHANGED <<reconVars, gatewayVars, refreshVars>>

\* variant of RollbackTxToSavepoint: the view goes back, the buffered operations stay
RollbackKeepOps(t) ==
    /\ tx[t].open
    /\ tx' = [tx EXCEPT ![t].tx_data = tx[t].savepoint,
                        ![t].discarded = @ \cup OpSet(SubSeq(tx[t].operations, tx[t].sp_ops + 1,
                                                             Len(tx[t].operations)))]
    /\ UNCHANGED <<rows, opened, mirror, lastOp>>
    /\ UNCHANGED <<reconVars, gatewayVars, refreshVars>>

\* rollback_tx_to_savepoint: the view and the buffered operations go back to the savepoint
RollbackTxToSavepoint(t) ==
    /\ tx[t].open
    /\ tx' = [tx EXCEPT ![t].tx_data = tx[t].savepoint,
                        ![t].operations = SubSeq(@, 1, tx[t].sp_ops),
                        ![t].discarded = @ \cup OpSet(SubSeq(tx[t].operations, tx[t].sp_ops + 1,
                                                             Len(tx[t].operations)))]
    /\ UNCHANGED <<rows, opened, mirror, lastOp>>
    /\ UNCHANGED <<reconVars, gatewayVars, refreshVars>>

\* variants of CommitPairs: the shared map as it is before the mirror-level commit;
\* only the keys this transaction wrote
CommitPairsOfMirror(t) == FindByPrefix(mirror, <<>>)
CommitPairsDelta(t) ==
    FindByPrefix([k \in (DOMAIN tx[t].tx_data) \cap OpKeys(tx[t].operations) |-> tx[t].tx_data[k]], <<>>)

\* what commit_tx serializes: the empty-prefix scan of the transaction's view
CommitPairs(t) == FindByPrefix(tx[t].tx_data, <<>>)

\* variant of CommitTx: the mirror-level commit only once the durable write succeeded
CommitTxAtomic(t) ==
    \E writeOk \in BOOLEAN :
        /\ tx[t].open
        /\ mirror' = IF writeOk THEN ApplyOps(mirror, tx[t].operations) ELSE mirror
        /\ rows' = IF writeOk THEN UpdateFedimintData(rows, Serialize(FindByPrefix(tx[t].tx_data, <<>>)))
                    ELSE rows
        /\ tx' = [tx EXCEPT ![t] = NoTx]
        /\ lastOp' = Call("commit_tx", t, writeOk, ~writeOk, {"update_fedimint_data"}, EndOf(tx[t]), "")
        /\ UNCHANGED opened
        /\ UNCHANGED <<reconVars, gatewayVars, refreshVars>>

\* SQLPseudoTransaction::commit_tx.  writeOk: update_fedimint_data returns Ok
CommitTx(t) ==
    \E writeOk \in BOOLEAN :
        LET key_value_pairs == CommitPairs(t)
            serialized_data == Serialize(key_value_pairs)
        IN
        /\ tx[t].open
        /\ mirror' = ApplyOps(mirror, tx[t].operations)
        /\ rows' = IF writeOk THEN UpdateFedimintData(rows, serialized_data) ELSE rows
        /\ tx' = [tx EXCEPT ![t] = NoTx]
        /\ lastOp' = Call("commit_tx", t, writeOk, ~writeOk, {"update_fedimint_data"}, EndOf(tx[t]), "")
        /\ UNCHANGED opened
        /\ UNCHANGED <<reconVars, gatewayVars, refreshVars>>

\* variant of DropTx: dropping flushes the buffered operations to the shared map
DropTxFlush(t) ==
    /\ tx[t].open
    /\ tx' = [tx EXCEPT ![t] = NoTx]
    /\ mirror' = ApplyOps(mirror, tx[t].operations)
    /\ lastOp' = Call("drop", t, TRUE, FALSE, {}, EndOf(tx[t]), "")
    /\ UNCHANGED <<rows, opened>>
    /\ UNCHANGED <<reconVars, gatewayVars, refreshVars>>

\* the handle goes out of scope without commit_tx
DropTx(t) ==
    /\ tx[t].open
    /\ tx' = [tx EXCEPT ![t] = NoTx]
    /\ lastOp' = Call("drop", t, TRUE, FALSE, {}, EndOf(tx[t]), "")
    /\ UNCHANGED <<rows, opened, mirror>>
    /\ UNCHANGED <<reconVars, gatewayVars, refreshVars>>

StoreNext ==
    \/ New
    \/ \E t \in SerialTx : BeginTransaction(t)
    \/ \E t \in SerialTx, kv \in Inserts : RawInsertBytes(t, kv[1], kv[2])
    \/ \E t \in SerialTx, k \in Keys : RawGetBytes(t, k)
    \/ \E t \in SerialTx, k \in Keys : RawRemoveEntry(t, k)
    \/ \E t \in SerialTx, p \in Prefixes : RawFindByPrefix(t, p)
    \/ \E t \in SerialTx, p \in Prefixes : RawFindByPrefixSortedDescending(t, p)
    \/ \E t \in SerialTx, p \in Prefixes : RawRemoveByPrefix(t, p)
    \/ \E t \in SerialTx : SetTxSavepoint(t)
    \/ \E t \in SerialTx : RollbackTxToSavepoint(t)
    \/ \E t \in SerialTx : CommitTx(t)
    \/ \E t \in SerialTx : DropTx(t)

\* ==================================================== reconciler tasks
\* One spawned task per (operation_id, msg_id): the five spawn_*_subscription
\* functions.  Each match arm is a list of steps, one per call the arm makes: a
\* send on the UI channel, a DBConnection call, get_balance, update_history.

MaxStates == 2      \* lifecycle states one task takes from its stream

Tasks == {1, 2}
Solo == {1}                     \* the tasks running when one operation is in flight
Kinds == {"LightningReceive", "LightningPay", "InternalPay", "OnchainPay", "OnchainReceive"}
Payloads == {"d1", "d2"}        \* a reason, a preimage or a txid carried by a state
Amount == 5                     \* data.btc_transaction.output[index].value
fee_sats == 0

\* the variants of LnReceiveState, LnPayState, InternalPayState, WithdrawState, DepositState
StatesOf(kind) ==
    CASE kind = "LightningReceive" ->
            {"Created", "WaitingForPayment", "Canceled", "Funded", "AwaitingFunds", "Claimed"}
      [] kind = "LightningPay" ->
            {"Created", "Canceled", "Funded", "WaitingForRefund", "AwaitingChange", "Success",
             "Refunded", "UnexpectedError"}
      [] kind = "InternalPay" ->
            {"Funding", "Preimage", "RefundSuccess", "RefundError", "FundingFailed", "UnexpectedError"}
      [] kind = "OnchainPay" -> {"Created", "Succeeded", "Failed"}
      [] kind = "OnchainReceive" ->
            {"WaitingForTransaction", "WaitingForConfirmation", "Confirmed", "Claimed", "Failed"}

operation_id(i) == i
msg_id(i) == 100 + i

\* steps of an arm
Send(type, data) == [i |-> "send", type |-> type, data |-> data, call |-> "", args |-> <<>>, hist |-> <<>>]
Persist(call, args) == [i |-> "persist", type |-> "", data |-> "", call |-> call, args |-> args, hist |-> <<>>]
GetBalance == [i |-> "get_balance", type |-> "", data |-> "", call |-> "", args |-> <<>>, hist |-> <<>>]
UpdateHistory == [i |-> "update_history", type |-> "", data |-> "", call |-> "", args |-> <<>>, hist |-> <<>>]

\* one match arm: its steps, and whether it ends in break
ArmOf(steps, brk) == [steps |-> steps, brk |-> brk]
Ignored == ArmOf(<<>>, FALSE)

\* variant of LnReceiveArm: the Canceled arm does not break
LnReceiveArmNoBreak(st, d) ==
    CASE st = "Canceled" ->
            ArmOf(<<Send("ReceiveFailed", d), Persist("mark_ln_receive_as_failed", <<>>)>>, FALSE)
      [] st = "Claimed" ->
            ArmOf(<<Send("ReceiveSuccess", "Lightning"), Persist("mark_ln_receive_as_success", <<>>),
                    GetBalance, Send("BalanceUpdated", "balance"), UpdateHistory>>, TRUE)
      [] OTHER -> Ignored

\* spawn_invoice_receive_subscription
LnReceiveArm(st, d) ==
    CASE st = "Canceled" ->
            ArmOf(<<Send("ReceiveFailed", d), Persist("mark_ln_receive_as_failed", <<>>)>>, TRUE)
      [] st = "Claimed" ->
            ArmOf(<<Send("ReceiveSuccess", "Lightning"), Persist("mark_ln_receive_as_success", <<>>),
                    GetBalance, Send("BalanceUpdated", "balance"), UpdateHistory>>, TRUE)
      [] OTHER -> Ignored

\* variant of LnPayArm: the Success arm does not refresh the history
LnPayArmNoHistory(st, d) ==
    CASE st = "Canceled" ->
            ArmOf(<<Send("SendFailure", "Canceled"),
                    Persist("mark_lightning_payment_as_failed", <<>>)>>, TRUE)
      [] st = "UnexpectedError" ->
            ArmOf(<<Send("SendFailure", d), Persist("mark_lightning_payment_as_failed", <<>>)>>, TRUE)
      [] st = "Success" ->
            ArmOf(<<Send("SendSuccess", d), Persist("set_lightning_payment_preimage", <<d>>),
                    GetBalance, Send("BalanceUpdated", "balance")>>, TRUE)
      [] OTHER -> Ignored

\* variant of LnPayArm: Refunded is handled as a failure
LnPayArmRefundedFails(st, d) ==
    CASE st = "Canceled" ->
            ArmOf(<<Send("SendFailure", "Canceled"),
                    Persist("mark_lightning_payment_as_failed", <<>>)>>, TRUE)
      [] st \in {"UnexpectedError", "Refunded"} ->
            ArmOf(<<Send("SendFailure", d), Persist("mark_lightning_payment_as_failed", <<>>)>>, TRUE)
      [] st = "Success" ->
            ArmOf(<<Send("SendSuccess", d), Persist("set_lightning_payment_preimage", <<d>>),
                    GetBalance, Send("BalanceUpdated", "balance"), UpdateHistory>>, TRUE)
      [] OTHER -> Ignored

\* variant of LnPayArm: the Success arm persists before it notifies
LnPayArmPersistFirst(st, d) ==
    CASE st = "Canceled" ->
            ArmOf(<<Send("SendFailure", "Canceled"),
                    Persist("mark_lightning_payment_as_failed", <<>>)>>, TRUE)
      [] st = "UnexpectedError" ->
            ArmOf(<<Send("SendFailure", d), Persist("mark_lightning_payment_as_failed", <<>>)>>, TRUE)
      [] st = "Success" ->
            ArmOf(<<Persist("set_lightning_payment_preimage", <<d>>), Send("SendSuccess", d),
                    GetBalance, Send("BalanceUpdated", "balance"), UpdateHistory>>, TRUE)
      [] OTHER -> Ignored

\* spawn_invoice_payment_subscription
LnPayArm(st, d) ==
    CASE st = "Canceled" ->
            ArmOf(<<Send("SendFailure", "Canceled"),
                    Persist("mark_lightning_payment_as_failed", <<>>)>>, TRUE)
      [] st = "UnexpectedError" ->
            ArmOf(<<Send("SendFailure", d), Persist("mark_lightning_payment_as_failed", <<>>)>>, TRUE)
      [] st = "Success" ->
            ArmOf(<<Send("SendSuccess", d), Persist("set_lightning_payment_preimage", <<d>>),
                    GetBalance, Send("BalanceUpdated", "balance"), UpdateHistory>>, TRUE)
      [] OTHER -> Ignored

\* variant of InternalPayArm: the Preimage arm reads the history before it persists
InternalPayArmHistoryFirst(st, d) ==
    CASE st = "FundingFailed" ->
            ArmOf(<<Send("ReceiveFailed", d), Persist("mark_lightning_payment_as_failed", <<>>)>>, TRUE)
      [] st = "UnexpectedError" ->
            ArmOf(<<Send("SendFailure", d), Persist("mark_lightning_payment_as_failed", <<>>)>>, TRUE)
      [] st = "Preimage" ->
            ArmOf(<<Send("SendSuccess", d), UpdateHistory, Persist("set_lightning_payment_preimage", <<d>>),
                    GetBalance, Send("BalanceUpdated", "balance")>>, TRUE)
      [] OTHER -> Ignored

\* spawn_internal_payment_subscription
InternalPayArm(st, d) ==
    CASE st = "FundingFailed" ->
            ArmOf(<<Send("ReceiveFailed", d), Persist("mark_lightning_payment_as_failed", <<>>)>>, TRUE)
      [] st = "UnexpectedError" ->
            ArmOf(<<Send("SendFailure", d), Persist("mark_lightning_payment_as_failed", <<>>)>>, TRUE)
      [] st = "Preimage" ->
            ArmOf(<<Send("SendSuccess", d), Persist("set_lightning_payment_preimage", <<d>>),
                    GetBalance, Send("BalanceUpdated", "balance"), UpdateHistory>>, TRUE)
      [] OTHER -> Ignored

\* variant of OnchainPayArm: the Succeeded arm marks the payment failed
OnchainPayArmWrongCall(st, d) ==
    CASE st = "Created" -> Ignored
      [] st = "Failed" ->
            ArmOf(<<Send("SendFailure", d), Persist("mark_onchain_payment_as_failed", <<>>)>>, TRUE)
      [] st = "Succeeded" ->
            ArmOf(<<Send("SendSuccess", d), Persist("mark_onchain_payment_as_failed", <<>>),
                    GetBalance, Send("BalanceUpdated", "balance"), UpdateHistory>>, TRUE)

\* spawn_onchain_payment_subscription
OnchainPayArm(st, d) ==
    CASE st = "Created" -> Ignored
      [] st = "Failed" ->
            ArmOf(<<Send("SendFailure", d), Persist("mark_onchain_payment_as_failed", <<>>)>>, TRUE)
      [] st = "Succeeded" ->
            ArmOf(<<Send("SendSuccess", d), Persist("set_onchain_payment_txid", <<d>>),
                    GetBalance, Send("BalanceUpdated", "balance"), UpdateHistory>>, TRUE)

\* variant of OnchainReceiveArm: the Failed arm refreshes the balance too
OnchainReceiveArmBalanceOnFailure(st, d) ==
    CASE st = "WaitingForTransaction" -> Ignored
      [] st = "Failed" ->
            ArmOf(<<Send("ReceiveFailed", d), Persist("mark_onchain_receive_as_failed", <<>>),
                    GetBalance, Send("BalanceUpdated", "balance")>>, TRUE)
      [] st = "WaitingForConfirmation" ->
            ArmOf(<<Send("ReceiveSuccess", d), Persist("set_onchain_receive_txid", <<d, Amount, fee_sats>>),
                    UpdateHistory>>, FALSE)
      [] st = "Confirmed" -> Ignored
      [] st = "Claimed" ->
            ArmOf(<<GetBalance, Send("BalanceUpdated", "balance"),
                    Persist("mark_onchain_receive_as_confirmed", <<>>), UpdateHistory>>, TRUE)

\* variant of OnchainReceiveArm: Confirmed marks the deposit confirmed
OnchainReceiveArmConfirmedPersists(st, d) ==
    CASE st = "WaitingForTransaction" -> Ignored
      [] st = "Failed" ->
            ArmOf(<<Send("ReceiveFailed", d), Persist("mark_onchain_receive_as_failed", <<>>)>>, TRUE)
      [] st = "WaitingForConfirmation" ->
            ArmOf(<<Send("ReceiveSuccess", d), Persist("set_onchain_receive_txid", <<d, Amount, fee_sats>>),
                    UpdateHistory>>, FALSE)
      [] st = "Confirmed" -> ArmOf(<<Persist("mark_onchain_receive_as_confirmed", <<>>)>>, FALSE)
      [] st = "Claimed" ->
            ArmOf(<<GetBalance, Send("BalanceUpdated", "balance"),
                    Persist("mark_onchain_receive_as_confirmed", <<>>), UpdateHistory>>, TRUE)

\* spawn_onchain_receive_subscription
OnchainReceiveArm(st, d) ==
    CASE st = "WaitingForTransaction" -> Ignored
      [] st = "Failed" ->
            ArmOf(<<Send("ReceiveFailed", d), Persist("mark_onchain_receive_as_failed", <<>>)>>, TRUE)
      [] st = "WaitingForConfirmation" ->
            ArmOf(<<Send("ReceiveSuccess", d), Persist("set_onchain_receive_txid", <<d, Amount, fee_sats>>),
                    UpdateHistory>>, FALSE)
      [] st = "Confirmed" -> Ignored
      [] st = "Claimed" ->
            ArmOf(<<GetBalance, Send("BalanceUpdated", "balance"),
                    Persist("mark_onchain_receive_as_confirmed", <<>>), UpdateHistory>>, TRUE)

Arm(kind, st, d) ==
    CASE kind = "LightningReceive" -> LnReceiveArm(st, d)
      [] kind = "LightningPay" -> LnPayArm(st, d)
      [] kind = "InternalPay" -> InternalPayArm(st, d)
      [] kind = "OnchainPay" -> OnchainPayArm(st, d)
      [] kind = "OnchainReceive" -> OnchainReceiveArm(st, d)

\* the states that carry a reason, a preimage, a txid or transaction data
CarriesData(kind, st) ==
    \/ kind = "LightningReceive" /\ st = "Canceled"
    \/ kind = "LightningPay" /\ st \in {"Success", "Refunded", "UnexpectedError"}
    \/ kind = "InternalPay" /\ st \in {"Preimage", "RefundSuccess", "RefundError", "FundingFailed",
                                       "UnexpectedError"}
    \/ kind = "OnchainPay" /\ st \in {"Succeeded", "Failed"}
    \/ kind = "OnchainReceive" /\ st \in {"WaitingForConfirmation", "Confirmed", "Claimed", "Failed"}

\* DBConnection's record calls: what each does to the OperationRecord
NewRecord == [status |-> "Pending", preimage |-> "", txid |-> "", amount |-> 0, fee |-> 0]
RecordAfter(rec, call, args) ==
    CASE call \in {"mark_ln_receive_as_failed", "mark_lightning_payment_as_failed",
                   "mark_onchain_payment_as_failed", "mark_onchain_receive_as_failed"} ->
            [rec EXCEPT !.status = "Failed"]
      [] call \in {"mark_ln_receive_as_success", "mark_onchain_receive_as_confirmed"} ->
            [rec EXCEPT !.status = "Success"]
      [] call = "set_lightning_payment_preimage" ->
            [rec EXCEPT !.status = "Success", !.preimage = args[1]]
      [] call = "set_onchain_payment_txid" ->
            [rec EXCEPT !.status = "Success", !.txid = args[1]]
      [] call = "set_onchain_receive_txid" ->
            [rec EXCEPT !.txid = args[1], !.amount = args[2], !.fee = args[3]]

\* log entries of a task
Event(e, st, type, data, call, args, ok, hist) ==
    [e |-> e, st |-> st, type |-> type, data |-> data, call |-> call, args |-> args, ok |-> ok,
     hist |-> hist]

\* after a step: the arm goes on, or breaks out of the loop, or the loop awaits the next state
AfterStep(t, rest) ==
    [t EXCEPT !.todo = rest,
              !.status = IF rest = <<>> /\ t.brk THEN "done" ELSE "running"]

\* a task as spawned: its stream not yet polled
Spawned(k) == [kind |-> k, status |-> "running", todo |-> <<>>, brk |-> FALSE, consumed |-> 0,
               log |-> <<>>]

\* no operation in flight
ReconIdle ==
    /\ task = [i \in Tasks |-> [Spawned("LightningReceive") EXCEPT !.status = "done"]]
    /\ records = [i \in Tasks |-> NewRecord]
    /\ chanOpen = TRUE

\* one operation of any kind in flight
ReconInit ==
    /\ \E k \in Kinds :
           task = [i \in Tasks |-> IF i \in Solo THEN Spawned(k)
                                   ELSE [Spawned("LightningReceive") EXCEPT !.status = "done"]]
    /\ records = [i \in Tasks |-> NewRecord]
    /\ chanOpen = TRUE

Awaiting(i) == task[i].status = "running" /\ task[i].todo = <<>>

\* stream.next() returns Some(op_state): the matching arm starts
StreamNext(i, st, d) ==
    LET arm == Arm(task[i].kind, st, d) IN
    /\ Awaiting(i)
    /\ task[i].consumed < MaxStates
    /\ st \in StatesOf(task[i].kind)
    /\ CarriesData(task[i].kind, st) \/ d = "d1"
    /\ task' = [task EXCEPT ![i] =
                    [AfterStep([@ EXCEPT !.brk = arm.brk], arm.steps)
                        EXCEPT !.consumed = @ + 1,
                               !.log = Append(@, Event("next", st, "", d, "", <<>>, TRUE, <<>>))]]
    /\ UNCHANGED <<records, chanOpen, storeVars, gatewayVars, refreshVars>>

\* stream.next() returns None: the while loop ends
StreamEnd(i) ==
    /\ Awaiting(i)
    /\ task' = [task EXCEPT ![i].status = "done"]
    /\ UNCHANGED <<records, chanOpen, storeVars, gatewayVars, refreshVars>>

Step(i) == Head(task[i].todo)
Busy(i, kind) == task[i].status = "running" /\ task[i].todo # <<>> /\ Step(i).i = kind

\* variant of SendMsg: a failed send is dropped and the task goes on
SendMsgIgnoreError(i) ==
    /\ Busy(i, "send")
    /\ task' = [task EXCEPT ![i] =
                    [AfterStep(@, Tail(@.todo)) EXCEPT
                        !.log = Append(@, Event("send", "", Step(i).type, Step(i).data, "",
                                                <<msg_id(i)>>, chanOpen,
                                                IF chanOpen THEN Step(i).hist ELSE <<>>))]]
    /\ UNCHANGED <<records, chanOpen, storeVars, gatewayVars, refreshVars>>

\* sender.send(..).await.unwrap(): the message is queued, or the task panics
SendMsg(i) ==
    /\ Busy(i, "send")
    /\ task' = [task EXCEPT ![i] =
                    IF chanOpen
                    THEN [AfterStep(@, Tail(@.todo)) EXCEPT
                            !.log = Append(@, Event("send", "", Step(i).type, Step(i).data, "",
                                                    <<msg_id(i)>>, TRUE, Step(i).hist))]
                    ELSE [@ EXCEPT !.status = "panicked", !.todo = <<>>,
                                   !.log = Append(@, Event("send", "", Step(i).type, Step(i).data, "",
                                                           <<msg_id(i)>>, FALSE, <<>>))]]
    /\ UNCHANGED <<records, chanOpen, storeVars, gatewayVars, refreshVars>>

\* variant of PersistCall: an Err ends the task
PersistCallPropagates(i) ==
    \E ok \in BOOLEAN :
        /\ Busy(i, "persist")
        /\ records' = IF ok
                      THEN [records EXCEPT ![operation_id(i)] = RecordAfter(@, Step(i).call, Step(i).args)]
                      ELSE records
        /\ task' = [task EXCEPT ![i] =
                        [(IF ok THEN AfterStep(@, Tail(@.todo))
                          ELSE [@ EXCEPT !.status = "panicked", !.todo = <<>>]) EXCEPT
                            !.log = Append(@, Event("persist", "", "", "", Step(i).call,
                                                    <<operation_id(i)>> \o Step(i).args, ok, <<>>))]]
        /\ UNCHANGED <<chanOpen, storeVars, gatewayVars, refreshVars>>

\* variant of PersistCall: every task keys its calls by the first operation's id
PersistCallSharedKey(i) ==
    \E ok \in BOOLEAN :
        /\ Busy(i, "persist")
        /\ records' = IF ok
                      THEN [records EXCEPT ![operation_id(1)] = RecordAfter(@, Step(i).call, Step(i).args)]
                      ELSE records
        /\ task' = [task EXCEPT ![i] =
                        [AfterStep(@, Tail(@.todo)) EXCEPT
                            !.log = Append(@, Event("persist", "", "", "", Step(i).call,
                                                    <<operation_id(1)>> \o Step(i).args, ok, <<>>))]]
        /\ UNCHANGED <<chanOpen, storeVars, gatewayVars, refreshVars>>

\* storage.mark_* / set_*(operation_id, ..): an Err is logged and swallowed
PersistCall(i) ==
    \E ok \in BOOLEAN :
        /\ Busy(i, "persist")
        /\ records' = IF ok
                      THEN [records EXCEPT ![operation_id(i)] = RecordAfter(@, Step(i).call, Step(i).args)]
                      ELSE records
        /\ task' = [task EXCEPT ![i] =
                        [AfterStep(@, Tail(@.todo)) EXCEPT
                            !.log = Append(@, Event("persist", "", "", "", Step(i).call,
                                                    <<operation_id(i)>> \o Step(i).args, ok, <<>>))]]
        /\ UNCHANGED <<chanOpen, storeVars, gatewayVars, refreshVars>>

\* client.get_balance().await
GetBalanceCall(i) ==
    /\ Busy(i, "get_balance")
    /\ task' = [task EXCEPT ![i] =
                    [AfterStep(@, Tail(@.todo)) EXCEPT
                        !.log = Append(@, Event("get_balance", "", "", "", "", <<>>, TRUE, <<>>))]]
    /\ UNCHANGED <<records, chanOpen, storeVars, gatewayVars, refreshVars>>

\* update_history: get_transaction_history(); on Ok the history is sent next
UpdateHistoryCall(i) ==
    \E ok \in BOOLEAN :
        /\ Busy(i, "update_history")
        /\ task' = [task EXCEPT ![i] =
                        [AfterStep(@, IF ok
                                      THEN <<[Send("TransactionHistoryUpdated", "history")
                                                EXCEPT !.hist = records]>> \o Tail(@.todo)
                                      ELSE Tail(@.todo))
                            EXCEPT !.log = Append(@, Event("get_transaction_history", "", "", "", "",
                                                           <<>>, ok, <<>>))]]
        /\ UNCHANGED <<records, chanOpen, storeVars, gatewayVars, refreshVars>>

\* the UI side drops the channel's receiver
CloseChannel ==
    /\ chanOpen
    /\ chanOpen' = FALSE
    /\ UNCHANGED <<task, records, storeVars, gatewayVars, refreshVars>>

ReconNext ==
    \/ \E i \in Solo, st \in UNION {StatesOf(k) : k \in Kinds}, d \in Payloads : StreamNext(i, st, d)
    \/ \E i \in Solo : StreamEnd(i)
    \/ \E i \in Solo : SendMsg(i)
    \/ \E i \in Solo : PersistCall(i)
    \/ \E i \in Solo : GetBalanceCall(i)
    \/ \E i \in Solo : UpdateHistoryCall(i)
    \/ CloseChannel

\* ==================================================== gateway selector
\* select_gateway: one scan of the registry for a vetted gateway or one with the
\* fee schedule looked for, then a scan for any gateway that resolves.  The ids
\* ln.select_gateway resolves are fixed during one call.

MaxGateways == 3    \* candidates in the registry

\* gateway.info.fees: at, and just under, the thresholds of the fee test
FeeSchedules == {[base_msat |-> 1000, proportional_millionths |-> 100],
                 [base_msat |-> 999, proportional_millionths |-> 100],
                 [base_msat |-> 1000, proportional_millionths |-> 99]}

\* a LightningGateway but for its id
GatewayProfiles ==
    [vetted : BOOLEAN, fees : FeeSchedules, supports_private_payments : BOOLEAN]

\* a LightningGateway: the registry entry with gateway_id id
Gateway(id, prof) ==
    [gateway_id |-> id, vetted |-> prof.vetted, fees |-> prof.fees,
     supports_private_payments |-> prof.supports_private_payments]

\* variant of Resolve: every id resolves
ResolveAlways(gs, res, id) ==
    LET hit == {i \in 1..Len(gs) : gs[i].gateway_id = id} IN
    IF hit = {} THEN <<>> ELSE <<gs[CHOOSE i \in hit : TRUE]>>

\* ln.select_gateway(&gateway_id): the gateway of that id, if it resolves
Resolve(gs, res, id) ==
    LET hit == {i \in 1..Len(gs) : gs[i].gateway_id = id} IN
    IF id \notin res \/ hit = {} THEN <<>> ELSE <<gs[CHOOSE i \in hit : TRUE]>>

\* the fee test of the first loop
FeesLookedFor(fees) == fees.base_msat >= 1000 /\ fees.proportional_millionths >= 100

\* variant of Replaces: every resolved candidate with such fees becomes the selection
ReplacesAlways(g, selected_gateway) == TRUE

\* g.supports_private_payments || selected_gateway.is_none()
Replaces(g, selected_gateway) == g.supports_private_payments \/ selected_gateway = <<>>

RECURSIVE ScanNoEarlyReturn(_, _, _, _)
\* variant of Scan: a resolved vetted gateway becomes the selection and the loop goes on
ScanNoEarlyReturn(gs, res, i, selected_gateway) ==
    IF i > Len(gs) THEN [ret |-> FALSE, selected_gateway |-> selected_gateway]
    ELSE LET gateway == gs[i]
             v == IF gateway.vetted THEN Resolve(gs, res, gateway.gateway_id) ELSE <<>>
             s1 == IF v # <<>> THEN v ELSE selected_gateway
             g == IF FeesLookedFor(gateway.fees) THEN Resolve(gs, res, gateway.gateway_id) ELSE <<>>
         IN ScanNoEarlyReturn(gs, res, i + 1,
                              IF g # <<>> /\ Replaces(g[1], s1) THEN g ELSE s1)

RECURSIVE Scan(_, _, _, _)
\* the first loop, from candidate i on: [ret, selected_gateway], ret when the loop
\* returned from the function with a vetted gateway
Scan(gs, res, i, selected_gateway) ==
    IF i > Len(gs) THEN [ret |-> FALSE, selected_gateway |-> selected_gateway]
    ELSE LET gateway == gs[i]
             v == IF gateway.vetted THEN Resolve(gs, res, gateway.gateway_id) ELSE <<>>
             g == IF FeesLookedFor(gateway.fees) THEN Resolve(gs, res, gateway.gateway_id) ELSE <<>>
         IN IF v # <<>> THEN [ret |-> TRUE, selected_gateway |-> v]
            ELSE Scan(gs, res, i + 1,
                      IF g # <<>> /\ Replaces(g[1], selected_gateway) THEN g ELSE selected_gateway)

RECURSIVE LastResolvable(_, _, _)
\* variant of FirstResolvable: the loop does not break
LastResolvable(gs, res, i) ==
    IF i > Len(gs) THEN <<>>
    ELSE LET later == LastResolvable(gs, res, i + 1) IN
         IF later # <<>> THEN later ELSE Resolve(gs, res, gs[i].gateway_id)

RECURSIVE FirstResolvable(_, _, _)
\* the second loop, from candidate i on: the first gateway that resolves
FirstResolvable(gs, res, i) ==
    IF i > Len(gs) THEN <<>>
    ELSE LET g == Resolve(gs, res, gs[i].gateway_id) IN
         IF g # <<>> THEN g ELSE FirstResolvable(gs, res, i + 1)

\* select_gateway's return value
SelectedGateway(gs, res) ==
    LET first == Scan(gs, res, 1, <<>>) IN
    IF first.ret THEN first.selected_gateway
    ELSE IF first.selected_gateway = <<>> THEN FirstResolvable(gs, res, 1)
    ELSE first.selected_gateway

\* select_gateway is not being called
GatewayIdle ==
    /\ gateways = <<>>
    /\ resolvable = {}
    /\ returned = [called |-> FALSE, value |-> <<>>]

\* a registry of distinct gateway ids in any order of profiles, any of them resolving
GatewayInit ==
    /\ \E n \in 0..MaxGateways :
           \E profs \in [1..n -> GatewayProfiles] :
               gateways = [i \in 1..n |-> Gateway(i, profs[i])]
    /\ resolvable \in SUBSET (1..Len(gateways))
    /\ returned = [called |-> FALSE, value |-> <<>>]

\* pub(crate) async fn select_gateway
SelectGateway ==
    /\ ~returned.called
    /\ returned' = [called |-> TRUE, value |-> SelectedGateway(gateways, resolvable)]
    /\ UNCHANGED <<gateways, resolvable, storeVars, reconVars, refreshVars>>

\* ============================================ gateway cache refresh task
\* FedimintClient::new builds the client and spawns the task that updates the
\* gateway cache once and then round after round, reading the stop flag after
\* each round.

MaxRounds == 6      \* refresh rounds the task starts

\* the ways FedimintClient::new returns Err before it spawns the task
NewErrors == {"storage", "open_or_join", "not_enough_information", "network_mismatch"}

Refresher(pc, err, first, rounds) == [pc |-> pc, err |-> err, first |-> first, rounds |-> rounds]

\* FedimintClient::new is not being called
RefreshIdle ==
    /\ stop = FALSE
    /\ stopAt = -1
    /\ refresher = Refresher("idle", "", "", 0)

\* FedimintClient::new is about to be called, the flag set already or not
RefreshInit ==
    /\ stop \in BOOLEAN
    /\ stopAt = IF stop THEN 0 ELSE -1
    /\ refresher = Refresher("new", "", "", 0)

\* FedimintClient::new: Err, or the task is spawned
FedimintClientNew ==
    /\ refresher.pc = "new"
    /\ \/ \E e \in NewErrors : refresher' = Refresher("failed", e, "", 0)
       \/ refresher' = Refresher("spawned", "", "", 0)
    /\ UNCHANGED <<stop, stopAt, storeVars, reconVars, gatewayVars>>

\* lightning_module.update_gateway_cache().await: Ok or Err, logged either way
UpdateGatewayCache ==
    /\ refresher.pc = "spawned"
    /\ \E res \in {"Ok", "Err"} : refresher' = [refresher EXCEPT !.pc = "loop", !.first = res]
    /\ UNCHANGED <<stop, stopAt, storeVars, reconVars, gatewayVars>>

\* variant of StartRound: the flag is read before a round starts, too
StartRoundUnlessStopped ==
    /\ refresher.pc = "loop"
    /\ refresher.rounds < MaxRounds
    /\ refresher' = IF stop THEN [refresher EXCEPT !.pc = "exited"]
                    ELSE [refresher EXCEPT !.pc = "round", !.rounds = @ + 1]
    /\ UNCHANGED <<stop, stopAt, storeVars, reconVars, gatewayVars>>

\* loop { update_gateway_cache_continuously(..) is called
StartRound ==
    /\ refresher.pc = "loop"
    /\ refresher.rounds < MaxRounds
    /\ refresher' = [refresher EXCEPT !.pc = "round", !.rounds = @ + 1]
    /\ UNCHANGED <<stop, stopAt, storeVars, reconVars, gatewayVars>>

\* update_gateway_cache_continuously(..).await returns
RoundCompletes ==
    /\ refresher.pc = "round"
    /\ refresher' = [refresher EXCEPT !.pc = "check"]
    /\ UNCHANGED <<stop, stopAt, storeVars, reconVars, gatewayVars>>

\* if stop_clone.load(Ordering::Relaxed) { break; }
CheckStop ==
    /\ refresher.pc = "check"
    /\ refresher' = [refresher EXCEPT !.pc = IF stop THEN "exited" ELSE "loop"]
    /\ UNCHANGED <<stop, stopAt, storeVars, reconVars, gatewayVars>>

\* the application sets the stop flag
SetStop ==
    /\ ~stop
    /\ stop' = TRUE
    /\ stopAt' = IF refresher.pc \in {"round", "check"} THEN refresher.rounds ELSE refresher.rounds + 1
    /\ UNCHANGED <<refresher, storeVars, reconVars, gatewayVars>>

RefreshNext ==
    \/ FedimintClientNew
    \/ UpdateGatewayCache
    \/ StartRound
    \/ RoundCompletes
    \/ CheckStop
    \/ SetStop

\* ========================================================= specifications
\* the storage adapter, its transactions serialized by the protocol client; the
\* reconciler tasks are not running
Init == StoreInit /\ ReconIdle /\ GatewayIdle /\ RefreshIdle
Next == StoreNext
Spec == Init /\ [][Next]_vars

\* one reconciler task of any kind; the storage adapter is left alone
InitReconciler == StoreInit /\ ReconInit /\ GatewayIdle /\ RefreshIdle
NextReconciler == ReconNext
SpecReconciler == InitReconciler /\ [][NextReconciler]_vars

\* one call of select_gateway on any registry
InitGateway == StoreInit /\ ReconIdle /\ GatewayInit /\ RefreshIdle
NextGateway == SelectGateway
SpecGateway == InitGateway /\ [][NextGateway]_vars

\* FedimintClient::new and the gateway cache refresh task
InitRefresh == StoreInit /\ ReconIdle /\ GatewayIdle /\ RefreshInit
NextRefresh == RefreshNext
SpecRefresh == InitRefresh /\ [][NextRefresh]_vars

\* lifecycle states taken from their streams by the tasks of S
RECURSIVE Consumed(_)
Consumed(S) ==
    IF S = {} THEN 0
    ELSE LET i == CHOOSE j \in S : TRUE IN task[i].consumed + Consumed(S \ {i})

\* two operations in flight, each with its own task, of any two kinds
InitConcurrent ==
    /\ StoreInit
    /\ GatewayIdle
    /\ RefreshIdle
    /\ \E k1, k2 \in Kinds : task = [i \in Tasks |-> Spawned(IF i = 1 THEN k1 ELSE k2)]
    /\ records = [i \in Tasks |-> NewRecord]
    /\ chanOpen = TRUE
NextConcurrent ==
    \/ \E i \in Tasks, st \in UNION {StatesOf(k) : k \in Kinds} :
            /\ Consumed(Tasks) < MaxStates       \* the bound, for the tasks together
            /\ StreamNext(i, st, "d1")
    \/ \E i \in Tasks : StreamEnd(i)
    \/ \E i \in Tasks : SendMsg(i)
    \/ \E i \in Tasks : PersistCall(i)
    \/ \E i \in Tasks : GetBalanceCall(i)
    \/ \E i \in Tasks : UpdateHistoryCall(i)
    \/ CloseChannel
SpecConcurrent == InitConcurrent /\ [][NextConcurrent]_vars

\* the storage adapter with two transaction handles whose lives may overlap: each
\* begins, inserts and removes, and commits or is dropped
DistinctInserts == {kv \in Inserts : kv[2] = <<7>>}         \* one value for each key
NextInterleaved ==
    \/ New
    \/ \E t \in TxIds : BeginTransaction(t)
    \/ \E t \in TxIds, kv \in DistinctInserts : RawInsertBytes(t, kv[1], kv[2])
    \/ \E t \in TxIds, k \in Keys : RawRemoveEntry(t, k)
    \/ \E t \in TxIds : CommitTx(t)
    \/ \E t \in TxIds : DropTx(t)
SpecInterleaved == Init /\ [][NextInterleaved]_vars

\* ================================================================ claims
\* the durable blob, decoded
BlobDecoded(rs) == IF rs = <<>> THEN [ok |-> FALSE, val |-> <<>>] ELSE Deserialize(rs[1])
BlobPairs(rs) == PairSet(BlobDecoded(rs).val)
BlobKeys(rs) == {p[1] : p \in BlobPairs(rs)}
BlobGet(rs, k) == MapGet(FromPairs(EmptyMap, BlobDecoded(rs).val), k)

RECURSIVE LastWrite(_, _)
\* what the last operation on key k in ops leaves: <<v>> or <<>> (removed)
LastWrite(ops, k) ==
    LET o == ops[Len(ops)] IN
    IF ops = <<>> THEN <<>>
    ELSE IF o.key = k THEN (IF o.op = "Insert" THEN <<o.value>> ELSE <<>>)
    ELSE LastWrite(SubSeq(ops, 1, Len(ops) - 1), k)

\* this step is a commit_tx
CommitStep == lastOp'.name = "commit_tx" /\ tx' # tx

\* this step is a transaction-local call (begin_transaction, insert, get, remove,
\* a prefix scan, remove_by_prefix, a savepoint call) or a drop: lastOp is then
\* that of the handle's begin_transaction or of the drop
TxLocalStep == lastOp'.name \in {"begin_transaction", "drop"}

\* C1: round trip.  When FedimintStorage::new runs right after a commit_tx that
\* returned Ok, and no durable call fails, it succeeds and the Mirror's key-value
\* set is exactly the committed transaction's final view.
C1_RoundTrip ==
    (lastOp.name = "new" /\ lastOp.after = "commit_ok" /\ ~lastOp.fault)
        => /\ lastOp.ok
           /\ opened
           /\ MapPairs(mirror) = MapPairs(lastOp.end.view)

\* a re-open after a committed transaction that both inserted and removed
C1_Witness ==
    /\ lastOp.name = "new" /\ lastOp.after = "commit_ok" /\ lastOp.ok
    /\ mirror # EmptyMap
    /\ \E i, j \in 1..Len(lastOp.end.ops) :
           lastOp.end.ops[i].op = "Insert" /\ lastOp.end.ops[j].op = "Delete"

\* C2: full overwrite.  The blob written by a successful commit_tx of a transaction
\* that overlapped no other holds every key-value pair of the Mirror; and when the
\* blob matched the Mirror before (every earlier commit succeeded), a key of the
\* earlier blob is missing from the new one only if the transaction removed it.
C2_FullOverwrite ==
    [][(CommitStep /\ lastOp'.ok /\ ~lastOp'.end.overlapped)
        => /\ BlobDecoded(rows').ok
           /\ BlobPairs(rows') = MapPairs(mirror')
           /\ BlobPairs(rows) = MapPairs(mirror)
                => \A k \in BlobKeys(rows) \ BlobKeys(rows') : k \in DeletedKeys(lastOp'.end.ops)
      ]_vars

\* a committed blob holding a key the committing transaction never touched
C2_Witness ==
    /\ lastOp.name = "commit_tx" /\ lastOp.ok /\ ~lastOp.end.overlapped
    /\ lastOp.end.ops # <<>>
    /\ \E k \in DOMAIN mirror :
           /\ k \notin OpKeys(lastOp.end.ops)
           /\ <<k, mirror[k]>> \in BlobPairs(rows)

\* C3: only commit_tx is durable.  begin_transaction, insert, get, remove, the prefix
\* scans, remove_by_prefix, the savepoint calls and a drop leave the durable rows
\* and the Mirror as they are and make no durable call; a transaction begun later
\* starts from that Mirror, so nothing of a dropped transaction reaches a later blob.
C3_OnlyCommitDurable ==
    [][TxLocalStep
        => /\ rows' = rows
           /\ mirror' = mirror
           /\ lastOp'.calls = {}
           /\ \A t \in TxIds : (~tx[t].open /\ tx'[t].open) => tx'[t].tx_data = mirror'
      ]_vars

\* a transaction with mutations was dropped, and the Mirror does not show them
C3_Witness ==
    /\ lastOp.name = "drop"
    /\ lastOp.end.ops # <<>>
    /\ lastOp.end.view # mirror

\* C4: a failed durable write in commit_tx: Err, the rows keep their value, the
\* Mirror has the transaction's mutations; a transaction begun next sees them, a
\* re-open sees the durable blob.
C4_CommitFailureGap ==
    [][/\ (CommitStep /\ ~lastOp'.ok)
            => /\ rows' = rows
               /\ \A k \in OpKeys(lastOp'.end.ops) :
                      MapGet(mirror', k) = MapGet(lastOp'.end.view, k)
       /\ (lastOp.name = "commit_tx" /\ ~lastOp.ok)
            => /\ \A t \in TxIds : (~tx[t].open /\ tx'[t].open)
                      => \A k \in OpKeys(lastOp.end.ops) :
                             MapGet(tx'[t].tx_data, k) = MapGet(lastOp.end.view, k)
               /\ (lastOp'.name = "new" /\ lastOp'.ok)
                      => MapPairs(mirror') = BlobPairs(rows)
      ]_vars

\* a failed commit_tx after which the Mirror and the durable blob differ
C4_Witness ==
    /\ lastOp.name = "commit_tx" /\ ~lastOp.ok
    /\ lastOp.end.ops # <<>>
    /\ BlobDecoded(rows).ok
    /\ MapPairs(mirror) # BlobPairs(rows)

\* C5: savepoint rollback.  After a successful commit_tx of a transaction that
\* overlapped no other, a key whose mutations were all undone by
\* rollback_tx_to_savepoint is in the Mirror and in the blob as it was in the Mirror
\* before, and a key with a surviving mutation is as its last surviving mutation
\* left it.
C5_SavepointRollback ==
    [][(CommitStep /\ lastOp'.ok /\ ~lastOp'.end.overlapped)
        => LET e == lastOp'.end IN
           /\ \A k \in OpKeys(e.ops) :
                  /\ MapGet(mirror', k) = LastWrite(e.ops, k)
                  /\ BlobGet(rows', k) = LastWrite(e.ops, k)
           /\ \A o \in e.discarded :
                  o.key \notin OpKeys(e.ops)
                      => /\ MapGet(mirror', o.key) = MapGet(mirror, o.key)
                         /\ BlobGet(rows', o.key) = MapGet(mirror, o.key)
      ]_vars

\* insert k1, savepoint, insert k2, rollback, commit: k1 is there, k2 is not
C5_Witness ==
    /\ lastOp.name = "commit_tx" /\ lastOp.ok
    /\ \E v \in Vals : lastOp.end.ops = <<InsertOp(<<1>>, v)>>
    /\ lastOp.end.discarded = {[op |-> "Insert", key |-> <<1, 2>>]}
    /\ <<1>> \in DOMAIN mirror /\ <<1, 2>> \notin DOMAIN mirror
    /\ <<1>> \in BlobKeys(rows) /\ <<1, 2>> \notin BlobKeys(rows)

\* C6: idempotent hydration.  FedimintStorage::new called again after a successful
\* new, with no commit_tx in between and no durable call failing, succeeds, gives
\* the same Mirror and leaves the rows as they are.
C6_IdempotentHydration ==
    [][(lastOp.name = "new" /\ lastOp.ok /\ lastOp'.name = "new" /\ ~lastOp'.fault)
        => /\ lastOp'.ok
           /\ mirror' = mirror
           /\ rows' = rows
      ]_vars

\* ------------------------------------------------------- reconciler claims
\* the terminal states of the five kinds
TerminalFailure(kind, st) ==
    \/ kind = "LightningReceive" /\ st = "Canceled"
    \/ kind = "LightningPay" /\ st \in {"Canceled", "UnexpectedError"}
    \/ kind = "InternalPay" /\ st \in {"FundingFailed", "UnexpectedError"}
    \/ kind \in {"OnchainPay", "OnchainReceive"} /\ st = "Failed"

TerminalSuccess(kind, st) ==
    \/ kind \in {"LightningReceive", "OnchainReceive"} /\ st = "Claimed"
    \/ kind = "LightningPay" /\ st = "Success"
    \/ kind = "InternalPay" /\ st = "Preimage"
    \/ kind = "OnchainPay" /\ st = "Succeeded"

Terminal(kind, st) == TerminalFailure(kind, st) \/ TerminalSuccess(kind, st)

\* the persistence calls that record an outcome
FailedCalls == {"mark_ln_receive_as_failed", "mark_lightning_payment_as_failed",
                "mark_onchain_payment_as_failed", "mark_onchain_receive_as_failed"}
SuccessCalls == {"mark_ln_receive_as_success", "set_lightning_payment_preimage",
                 "set_onchain_payment_txid", "mark_onchain_receive_as_confirmed"}
OutcomeTypes == {"ReceiveSuccess", "ReceiveFailed", "SendSuccess", "SendFailure"}

\* positions of a task's log
Pos(i) == DOMAIN task[i].log
Ev(i, j) == task[i].log[j]
\* positions where the task took a terminal (failure, success) state from its stream
TerminalAt(i) == {j \in Pos(i) : Ev(i, j).e = "next" /\ Terminal(task[i].kind, Ev(i, j).st)}
FailureAt(i) == {j \in Pos(i) : Ev(i, j).e = "next" /\ TerminalFailure(task[i].kind, Ev(i, j).st)}
SuccessAt(i) == {j \in Pos(i) : Ev(i, j).e = "next" /\ TerminalSuccess(task[i].kind, Ev(i, j).st)}
\* what followed position j: outcome persistence calls, outcome messages, messages of a type
PersistsAfter(i, j) ==
    {k \in Pos(i) : k > j /\ Ev(i, k).e = "persist" /\ Ev(i, k).call \in FailedCalls \cup SuccessCalls}
OutcomesAfter(i, j) ==
    {k \in Pos(i) : k > j /\ Ev(i, k).e = "send" /\ Ev(i, k).type \in OutcomeTypes}
SentAfter(i, j, type) ==
    {k \in Pos(i) : k > j /\ Ev(i, k).e = "send" /\ Ev(i, k).ok /\ Ev(i, k).type = type}
CalledAfter(i, j, e) == {k \in Pos(i) : k > j /\ Ev(i, k).e = e}
\* the state being handled at position j: the last one taken from the stream
HandlingAt(i, j) ==
    LET ns == {k \in Pos(i) : k <= j /\ Ev(i, k).e = "next"} IN
    Ev(i, CHOOSE k \in ns : \A m \in ns : m <= k).st

\* the arm of a terminal state ran to its break
Finished(i) == task[i].status = "done" /\ TerminalAt(i) # {}

C8_RefreshOnSuccess ==
    \A i \in Tasks : \A j \in SuccessAt(i) :
        Finished(i)
            => /\ CalledAfter(i, j, "get_balance") # {}
               /\ SentAfter(i, j, "BalanceUpdated") # {}
               /\ CalledAfter(i, j, "get_transaction_history") # {}
               /\ SentAfter(i, j, "TransactionHistoryUpdated") # {}

\* C8, amended: a task that handled a terminal success state queried the balance
\* and sent BalanceUpdated, and read the history; it sent TransactionHistoryUpdated
\* if and only if that read returned Ok.
C8_RefreshOnSuccessIfRead ==
    \A i \in Tasks : \A j \in SuccessAt(i) :
        Finished(i)
            => /\ CalledAfter(i, j, "get_balance") # {}
               /\ SentAfter(i, j, "BalanceUpdated") # {}
               /\ Cardinality(CalledAfter(i, j, "get_transaction_history")) = 1
               /\ \A k \in CalledAfter(i, j, "get_transaction_history") :
                      Ev(i, k).ok <=> SentAfter(i, k, "TransactionHistoryUpdated") # {}

\* a terminal success after which the history was read and sent
C8_Witness ==
    \E i \in Tasks : \E j \in SuccessAt(i) :
        /\ Finished(i)
        /\ SentAfter(i, j, "TransactionHistoryUpdated") # {}

\* C9: BalanceUpdated is sent only while a terminal success state is handled, and
\* while a terminal failure state is handled neither BalanceUpdated nor
\* TransactionHistoryUpdated is sent.
C9_RefreshOnlyOnSuccess ==
    \A i \in Tasks : \A k \in Pos(i) :
        Ev(i, k).e = "send"
            => /\ Ev(i, k).type = "BalanceUpdated"
                    => TerminalSuccess(task[i].kind, HandlingAt(i, k))
               /\ Ev(i, k).type \in {"BalanceUpdated", "TransactionHistoryUpdated"}
                    => ~TerminalFailure(task[i].kind, HandlingAt(i, k))

\* a terminal failure handled to its break after an earlier state
C9_Witness ==
    \E i \in Tasks : \E j \in FailureAt(i) :
        /\ task[i].status = "done"
        /\ j > 1
        /\ OutcomesAfter(i, j) # {}

\* the calls and messages of the outcome table
SuccessCallOf(kind) ==
    CASE kind = "LightningReceive" -> "mark_ln_receive_as_success"
      [] kind \in {"LightningPay", "InternalPay"} -> "set_lightning_payment_preimage"
      [] kind = "OnchainPay" -> "set_onchain_payment_txid"
      [] kind = "OnchainReceive" -> "mark_onchain_receive_as_confirmed"
FailedCallOf(kind) ==
    CASE kind = "LightningReceive" -> "mark_ln_receive_as_failed"
      [] kind \in {"LightningPay", "InternalPay"} -> "mark_lightning_payment_as_failed"
      [] kind = "OnchainPay" -> "mark_onchain_payment_as_failed"
      [] kind = "OnchainReceive" -> "mark_onchain_receive_as_failed"
\* the arguments after the operation id: the preimage or txid where the call takes one
SuccessArgs(kind, d) == IF kind \in {"LightningPay", "InternalPay", "OnchainPay"} THEN <<d>> ELSE <<>>
PersistedAfter(i, j, call, args) ==
    \E k \in PersistsAfter(i, j) :
        Ev(i, k).call = call /\ Ev(i, k).args = <<operation_id(i)>> \o args
\* the success message carries the preimage or txid where the state has one
SuccessSent(i, j, d) ==
    \E k \in OutcomesAfter(i, j) :
        /\ Ev(i, k).ok
        /\ Ev(i, k).type \in {"ReceiveSuccess", "SendSuccess"}
        /\ task[i].kind # "LightningReceive" => Ev(i, k).data = d
\* the failure message carries the reason where the state has one
FailureSent(i, j, d) ==
    \E k \in OutcomesAfter(i, j) :
        /\ Ev(i, k).ok
        /\ Ev(i, k).type \in {"ReceiveFailed", "SendFailure"}
        /\ ~(task[i].kind = "LightningPay" /\ Ev(i, j).st = "Canceled") => Ev(i, k).data = d

ResolvingAt == {i \in 1..Len(gateways) : gateways[i].gateway_id \in resolvable}
VettedAt == {i \in ResolvingAt : gateways[i].vetted}
FeeAt == {i \in ResolvingAt : gateways[i].fees.base_msat >= 1000
                                /\ gateways[i].fees.proportional_millionths >= 100}
PrivateFeeAt == {i \in FeeAt : gateways[i].supports_private_payments}
FirstOf(S) == CHOOSE i \in S : \A j \in S : i <= j
LastOf(S) == CHOOSE i \in S : \A j \in S : j <= i

\* C11: when some vetted candidate resolves, select_gateway returns the first such
\* candidate in registry order, whatever the other candidates are.
C11_VettedFirst ==
    (returned.called /\ VettedAt # {})
        => returned.value = <<gateways[FirstOf(VettedAt)]>>

\* a vetted gateway returned although a resolving candidate with the fees looked
\* for and private payments comes earlier in the registry
C11_Witness ==
    /\ returned.called /\ VettedAt # {}
    /\ \E i \in PrivateFeeAt : i < FirstOf(VettedAt) /\ ~gateways[i].vetted
    /\ returned.value = <<gateways[FirstOf(VettedAt)]>>

\* C12 as claimed: when no vetted candidate resolves and some resolving candidate
\* has the fees looked for, the result is the last such candidate, except that a
\* selection supporting private payments is never replaced by one that does not:
\* the last such candidate supporting private payments if there is one.
C12_LastFeeQualifying ==
    (returned.called /\ VettedAt = {} /\ FeeAt # {})
        => returned.value = <<gateways[IF PrivateFeeAt # {} THEN LastOf(PrivateFeeAt)
                                       ELSE LastOf(FeeAt)]>>

\* C12, amended: a resolving candidate with the fees looked for replaces the running
\* selection only if it supports private payments or nothing is selected yet: the
\* result is the last such candidate supporting private payments if there is one,
\* and otherwise the first such candidate.
C12_FeeThreshold ==
    (returned.called /\ VettedAt = {} /\ FeeAt # {})
        => returned.value = <<gateways[IF PrivateFeeAt # {} THEN LastOf(PrivateFeeAt)
                                       ELSE FirstOf(FeeAt)]>>

\* a selection supporting private payments kept over a later candidate that does not
C12_Witness ==
    /\ returned.called /\ VettedAt = {}
    /\ PrivateFeeAt # {}
    /\ \E i \in FeeAt \ PrivateFeeAt : i > LastOf(PrivateFeeAt)
    /\ returned.value = <<gateways[LastOf(PrivateFeeAt)]>>

\* C13: when no candidate is vetted and none has the fees looked for, and some
\* candidate resolves, select_gateway returns the first resolving candidate.
C13_Fallback ==
    (/\ returned.called
     /\ \A i \in 1..Len(gateways) :
            /\ ~gateways[i].vetted
            /\ ~(gateways[i].fees.base_msat >= 1000 /\ gateways[i].fees.proportional_millionths >= 100)
     /\ ResolvingAt # {})
        => returned.value = <<gateways[FirstOf(ResolvingAt)]>>

\* the fallback returned the first of two resolving candidates, after one that did not resolve
C13_Witness ==
    /\ returned.called
    /\ \A i \in 1..Len(gateways) : ~gateways[i].vetted /\ ~FeesLookedFor(gateways[i].fees)
    /\ Cardinality(ResolvingAt) >= 2
    /\ FirstOf(ResolvingAt) > 1
    /\ returned.value = <<gateways[FirstOf(ResolvingAt)]>>

\* C14: select_gateway returns None exactly when no candidate resolves, and a gateway
\* it returns is a candidate of the registry that resolved.
C14_NoneIffNoneResolves ==
    returned.called
        => /\ returned.value = <<>> <=> ResolvingAt = {}
           /\ returned.value # <<>> => \E i \in ResolvingAt : returned.value = <<gateways[i]>>

\* None returned from a registry holding vetted candidates and candidates with the
\* fees looked for, none of which resolves
C14_Witness ==
    /\ returned.called /\ returned.value = <<>>
    /\ \E i, j \in 1..Len(gateways) : gateways[i].vetted /\ FeesLookedFor(gateways[j].fees)

\* ------------------------------------------------------- concurrency claims
\* the event a task logged in this step, if any: <<event>> or <<>>
Logged(i) ==
    IF Len(task'[i].log) > Len(task[i].log) THEN <<task'[i].log[Len(task'[i].log)]>> ELSE <<>>

\* C15: record ownership.  With two tasks interleaved, a persistence call of a task
\* is keyed by the operation_id the task was spawned with, a message it sends
\* carries its msg_id, and an OperationRecord changes only in a persistence call of
\* the task that owns its operation id.
C15_RecordOwnership ==
    [][/\ \A i \in Tasks : \A ev \in PairSet(Logged(i)) :
              /\ ev.e = "persist" => ev.args[1] = operation_id(i)
              /\ ev.e = "send" => ev.args = <<msg_id(i)>>
       /\ \A o \in DOMAIN records :
              records'[o] # records[o]
                  => \E i \in Tasks :
                         /\ operation_id(i) = o
                         /\ Logged(i) # <<>> /\ Logged(i)[1].e = "persist"
      ]_vars

\* both operations' records were written, one failed and one succeeded, by two
\* tasks that each also sent a message
C15_Witness ==
    /\ records[operation_id(1)].status = "Failed"
    /\ records[operation_id(2)].status = "Success"
    /\ \A i \in Tasks : \E j \in Pos(i) : Ev(i, j).e = "send" /\ Ev(i, j).ok

\* C16: commit under interleaving.  A commit_tx that returns Ok when the durable
\* blob held the Mirror's contents leaves a blob that decodes to exactly the Mirror's
\* contents, also when another transaction committed during its life.
C16_BlobIsMirror ==
    [][(CommitStep /\ lastOp'.ok /\ BlobPairs(rows) = MapPairs(mirror))
        => /\ BlobDecoded(rows').ok
           /\ BlobPairs(rows') = MapPairs(mirror')
      ]_vars

\* ------------------------------------------- reconciler ordering and errors
\* the position at which the state being handled at position k was taken
HandlingPos(i, k) ==
    LET ns == {m \in Pos(i) : m <= k /\ Ev(i, m).e = "next"} IN
    CHOOSE m \in ns : \A n \in ns : n <= m
\* the events logged while the state taken at position j was handled
During(i, j) == {k \in Pos(i) : k > j /\ HandlingPos(i, k) = j}
\* a persistence call at position k
PersistAt(i) == {k \in Pos(i) : Ev(i, k).e = "persist"}
FailedPersistAt(i) == {k \in PersistAt(i) : ~Ev(i, k).ok}
\* the state taken at position j is the last one taken
LastState(i, j) == \A m \in Pos(i) : m > j => Ev(i, m).e # "next"

\* C17: notify before persist.  Every persistence call is made after a UI message
\* was sent for the state being handled.
C17_NotifyBeforePersist ==
    \A i \in Tasks : \A k \in PersistAt(i) :
        \E m \in During(i, HandlingPos(i, k)) :
            m < k /\ Ev(i, m).e = "send" /\ Ev(i, m).ok

\* a persistence call that failed after the UI was told of the preimage
C17_Witness ==
    \E i \in Tasks : \E k \in FailedPersistAt(i) :
        /\ Ev(i, k).call = "set_lightning_payment_preimage"
        /\ Ev(i, k - 1).e = "send" /\ Ev(i, k - 1).type = "SendSuccess"
        /\ records[operation_id(i)].status = "Pending"

\* C18 as claimed: after a failed terminal-success persistence call the task sends
\* BalanceUpdated and TransactionHistoryUpdated and ends; after a failed
\* terminal-failure call it ends; after a failed call in OnchainReceive
\* WaitingForConfirmation it reads the history and its loop goes on.
C18_PersistFailureSwallowedThenRefresh ==
    \A i \in Tasks : \A k \in FailedPersistAt(i) :
        LET j == HandlingPos(i, k)
            st == Ev(i, j).st
        IN
        /\ task[i].status # "panicked" /\ task[i].todo = <<>>
              => /\ TerminalSuccess(task[i].kind, st)
                    => /\ task[i].status = "done"
                       /\ SentAfter(i, k, "BalanceUpdated") # {}
                       /\ SentAfter(i, k, "TransactionHistoryUpdated") # {}
                 /\ TerminalFailure(task[i].kind, st)
                    => task[i].status = "done" /\ k = Len(task[i].log)
                 /\ st = "WaitingForConfirmation"
                    => /\ \E m \in During(i, j) : m > k /\ Ev(i, m).e = "get_transaction_history"
                       /\ LastState(i, j) => ~task[i].brk

\* C18, amended: a failed persistence call changes nothing of what follows it.  In
\* a terminal success state the task has queried the balance and sent BalanceUpdated
\* (before the call for OnchainReceive Claimed, after it for the other kinds), reads
\* the history once after the call, sends TransactionHistoryUpdated if and only if
\* that read returned Ok, and ends; in a terminal failure state it ends; in
\* OnchainReceive WaitingForConfirmation it reads the history and its loop goes on.
C18_PersistFailureSwallowed ==
    \A i \in Tasks : \A k \in FailedPersistAt(i) :
        LET j == HandlingPos(i, k)
            st == Ev(i, j).st
            reads == {m \in During(i, j) : m > k /\ Ev(i, m).e = "get_transaction_history"}
        IN
        /\ k = Len(task[i].log)
              => /\ task[i].status # "panicked"
                 /\ task[i].status = "running"
                        => task[i].todo # <<>> \/ st = "WaitingForConfirmation"
        /\ task[i].status # "panicked" /\ task[i].todo = <<>>
              => /\ TerminalSuccess(task[i].kind, st)
                    => /\ task[i].status = "done"
                       /\ \E m \in During(i, j) :
                              /\ Ev(i, m).e = "send" /\ Ev(i, m).ok /\ Ev(i, m).type = "BalanceUpdated"
                              /\ m < k <=> (task[i].kind = "OnchainReceive")
                       /\ Cardinality(reads) = 1
                       /\ \A m \in reads :
                              Ev(i, m).ok <=> SentAfter(i, m, "TransactionHistoryUpdated") # {}
                 /\ TerminalFailure(task[i].kind, st)
                    => task[i].status = "done" /\ k = Len(task[i].log)
                 /\ st = "WaitingForConfirmation"
                    => /\ Cardinality(reads) = 1
                       /\ LastState(i, j) => ~task[i].brk

\* a failed set_onchain_receive_txid after which the history was read and sent and
\* the next state was taken
C18_Witness ==
    \E i \in Tasks : \E k \in FailedPersistAt(i) :
        /\ Ev(i, k).call = "set_onchain_receive_txid"
        /\ SentAfter(i, k, "TransactionHistoryUpdated") # {}
        /\ \E m \in Pos(i) : m > k /\ Ev(i, m).e = "next"

\* C19: a failed send is fatal to its task.  The failed send is the last thing the
\* task does: it makes no persistence call, sends nothing and takes no state
\* afterwards, the record of its operation stays as it was, and a terminal state
\* whose first send failed has no persistence call.  The step in which a task fails
\* leaves the other tasks and every record as they are.
C19_SendFailureFatal ==
    [][\A i \in Tasks :
          /\ (Logged(i) # <<>> /\ Logged(i)[1].e = "send" /\ ~Logged(i)[1].ok)
                => /\ task'[i].status = "panicked"
                   /\ records' = records
                   /\ \A o \in Tasks \ {i} : task'[o] = task[o]
          /\ task[i].status = "panicked"
                => /\ task'[i] = task[i]
                   /\ records'[operation_id(i)] = records[operation_id(i)]
                   /\ LET n == Len(task[i].log)
                          j == HandlingPos(i, n)
                      IN /\ Ev(i, n).e = "send" /\ ~Ev(i, n).ok
                         /\ \A k \in Pos(i) : k < n /\ Ev(i, k).e = "send" => Ev(i, k).ok
                         /\ (Terminal(task[i].kind, Ev(i, j).st)
                                /\ \A k \in During(i, j) : k < n => Ev(i, k).e # "send")
                                => /\ \A k \in During(i, j) : Ev(i, k).e # "persist"
                                   /\ records[operation_id(i)].status = "Pending"
      ]_vars

\* one task failed sending the outcome of a terminal state, its record still
\* Pending; the other task's operation was recorded
C19_Witness ==
    /\ task[1].status = "panicked"
    /\ Terminal(task[1].kind, HandlingAt(1, Len(task[1].log)))
    /\ records[operation_id(1)].status = "Pending"
    /\ task[2].status = "done"
    /\ records[operation_id(2)].status = "Success"

\* C20: the intermediate states of an onchain receive.  WaitingForConfirmation, once
\* handled: ReceiveSuccess with the txid was sent, set_onchain_receive_txid was called
\* with the txid, the amount and fee 0, the history was read, the balance was not
\* queried and BalanceUpdated not sent, and the loop goes on.  WaitingForTransaction
\* and Confirmed: no persistence call, no message, and the loop goes on.
C20_OnchainReceiveIntermediate ==
    \A i \in Tasks : \A j \in Pos(i) :
        (task[i].kind = "OnchainReceive" /\ Ev(i, j).e = "next")
            => LET st == Ev(i, j).st
                   d == Ev(i, j).data
                   handled == ~LastState(i, j) \/ (task[i].todo = <<>> /\ task[i].status # "panicked")
               IN
               /\ st = "WaitingForConfirmation"
                    => /\ LastState(i, j) => ~task[i].brk
                       /\ \A k \in During(i, j) :
                              /\ Ev(i, k).e # "get_balance"
                              /\ Ev(i, k).e = "send"
                                    => Ev(i, k).type \in {"ReceiveSuccess", "TransactionHistoryUpdated"}
                              /\ Ev(i, k).e = "persist" => Ev(i, k).call = "set_onchain_receive_txid"
                       /\ handled
                            => /\ \E k \in During(i, j) :
                                      /\ Ev(i, k).e = "send" /\ Ev(i, k).ok
                                      /\ Ev(i, k).type = "ReceiveSuccess" /\ Ev(i, k).data = d
                               /\ \E k \in During(i, j) :
                                      /\ Ev(i, k).e = "persist"
                                      /\ Ev(i, k).call = "set_onchain_receive_txid"
                                      /\ Ev(i, k).args = <<operation_id(i), d, Amount, 0>>
                               /\ \E k \in During(i, j) : Ev(i, k).e = "get_transaction_history"
               /\ st \in {"WaitingForTransaction", "Confirmed"}
                    => /\ During(i, j) = {}
                       /\ LastState(i, j) => ~task[i].brk /\ task[i].todo = <<>>

\* a deposit seen waiting for confirmation, its txid and amount recorded, then confirmed
C20_Witness ==
    \E i \in Tasks :
        /\ task[i].kind = "OnchainReceive"
        /\ \E j, m \in Pos(i) :
               /\ j < m
               /\ Ev(i, j).e = "next" /\ Ev(i, j).st = "WaitingForConfirmation"
               /\ Ev(i, m).e = "next" /\ Ev(i, m).st = "Confirmed"
        /\ records[operation_id(i)].txid # "" /\ records[operation_id(i)].amount = Amount
        /\ records[operation_id(i)].status = "Pending"

\* --------------------------------------------------- refresh task claims
\* C21: cooperative stop.  The task leaves its loop only from the flag test that
\* follows a completed round, and does so exactly when the flag is set then, without
\* starting another round; while a round is in progress, setting the flag changes
\* nothing of the task, whose only step is the round's completion; and a task that
\* left its loop ran the round during which the flag was set, or one round when the
\* flag was set before the task was spawned.
C21_CooperativeStop ==
    [][/\ (refresher.pc # "exited" /\ refresher'.pc = "exited")
            => refresher.pc = "check" /\ stop /\ refresher'.rounds = refresher.rounds
       /\ (refresher.pc = "check" /\ refresher' # refresher)
            => refresher'.pc = (IF stop THEN "exited" ELSE "loop")
       /\ refresher.pc = "round"
            => /\ stop' # stop => refresher' = refresher
               /\ refresher' # refresher => refresher' = [refresher EXCEPT !.pc = "check"]
       /\ refresher'.pc = "exited"
            => /\ refresher'.rounds >= 1
               /\ refresher'.rounds = (IF stopAt' = 0 THEN 1 ELSE stopAt')
      ]_vars

\* the flag was set before the task was spawned, and the task left its loop after one round
C21_Witness ==
    /\ refresher.pc = "exited"
    /\ stopAt = 0
    /\ refresher.rounds = 1

\* ------------------------------------------------ reconciler claims, continued
PayKinds == {"LightningPay", "InternalPay", "OnchainPay"}
ReceiveKinds == {"LightningReceive", "OnchainReceive"}

\* C22: direction consistency.  The outcome messages of a task for a pay kind are
\* SendSuccess / SendFailure, those of a task for a receive kind ReceiveSuccess /
\* ReceiveFailed.
C22_DirectionConsistency ==
    \A i \in Tasks : \A k \in Pos(i) :
        (Ev(i, k).e = "send" /\ Ev(i, k).type \in OutcomeTypes)
            => /\ task[i].kind \in PayKinds => Ev(i, k).type \in {"SendSuccess", "SendFailure"}
               /\ task[i].kind \in ReceiveKinds => Ev(i, k).type \in {"ReceiveSuccess", "ReceiveFailed"}

\* the history reads, and the successful persistence calls before position m, made
\* while the state taken at position j was handled
ReadsDuring(i, j) == {m \in During(i, j) : Ev(i, m).e = "get_transaction_history"}
PersistedBefore(i, j, m) == {k \in During(i, j) : k < m /\ Ev(i, k).e = "persist"}
\* a record shows what a persistence call with these arguments writes
Reflects(rec, call, args) ==
    CASE call \in {"mark_ln_receive_as_success", "mark_onchain_receive_as_confirmed"} ->
            rec.status = "Success"
      [] call = "set_lightning_payment_preimage" -> rec.status = "Success" /\ rec.preimage = args[2]
      [] call = "set_onchain_payment_txid" -> rec.status = "Success" /\ rec.txid = args[2]
      [] call = "set_onchain_receive_txid" ->
            rec.txid = args[2] /\ rec.amount = args[3] /\ rec.fee = args[4]
      [] OTHER -> rec.status = "Failed"

\* C23: history refresh follows persistence.  Every read of the history is made after
\* the persistence call of the state being handled has returned, and when that call
\* succeeded the TransactionHistoryUpdated sent for the read shows the operation's
\* record as the call left it.
C23_HistoryAfterPersist ==
    \A i \in Tasks : \A j \in Pos(i) : \A m \in ReadsDuring(i, j) :
        /\ Cardinality(PersistedBefore(i, j, m)) = 1
        /\ \A k \in PersistedBefore(i, j, m) :
               /\ Ev(i, k).call \in SuccessCalls \cup {"set_onchain_receive_txid"}
               /\ \A n \in During(i, j) :
                      (/\ n > m
                       /\ Ev(i, n).e = "send" /\ Ev(i, n).ok
                       /\ Ev(i, n).type = "TransactionHistoryUpdated"
                       /\ Ev(i, k).ok)
                          => Reflects(Ev(i, n).hist[operation_id(i)], Ev(i, k).call, Ev(i, k).args)

\* a TransactionHistoryUpdated that shows the preimage a payment has just recorded
C23_Witness ==
    \E i \in Tasks : \E n \in Pos(i) :
        /\ task[i].kind \in {"LightningPay", "InternalPay"}
        /\ Ev(i, n).e = "send" /\ Ev(i, n).ok /\ Ev(i, n).type = "TransactionHistoryUpdated"
        /\ Ev(i, n).hist[operation_id(i)].status = "Success"
        /\ Ev(i, n).hist[operation_id(i)].preimage = "d2"

\* C24: stream end without a handled terminal state.  A task whose stream ended after
\* states that are none of its terminal states has made no terminal persistence
\* call, has sent no BalanceUpdated and no message but those of OnchainReceive
\* WaitingForConfirmation, and its record is still Pending.
C24_StreamEndNoTerminal ==
    \A i \in Tasks :
        (task[i].status = "done" /\ TerminalAt(i) = {})
            => /\ \A k \in Pos(i) :
                      /\ Ev(i, k).e = "persist" => Ev(i, k).call \notin FailedCalls \cup SuccessCalls
                      /\ Ev(i, k).e # "get_balance"
                      /\ Ev(i, k).e \in {"send", "persist", "get_transaction_history"}
                            => /\ task[i].kind = "OnchainReceive"
                               /\ HandlingAt(i, k) = "WaitingForConfirmation"
               /\ records[operation_id(i)].status = "Pending"
               /\ task[i].todo = <<>>

\* a task whose stream ended after catch-all states carrying a payload
C24_Witness ==
    \E i \in Tasks :
        /\ task[i].status = "done" /\ TerminalAt(i) = {}
        /\ task[i].kind \in {"LightningPay", "InternalPay"}
        /\ \E k \in Pos(i) : Ev(i, k).st \in {"Refunded", "RefundSuccess", "RefundError"}
        /\ records[operation_id(i)].status = "Pending"

====
